---- MODULE Spec2Model ----
(***************************************************************************)
(* Model of the distinct-colour palette generator of tool/visualization.py *)
(* (_srgb_to_linear, _rgb_to_oklab, _oklab_to_oklch, _oklch_distance and   *)
(* generate_distinct_colors).                                              *)
(*                                                                         *)
(* Python floats are modelled as fixed-point numbers: the integer n stands *)
(* for the real n / Unit.  Products are rescaled by Unit, and the library  *)
(* functions the code calls (x ** 2.4, x ** (1/3), x ** 0.5, atan2) are    *)
(* computed at that resolution; the matrix coefficients are kept to five   *)
(* decimals.  Python sequences are 0-based, the                            *)
(* sequences of the model are 1-based: model index i is Python index i-1.  *)
(***************************************************************************)
EXTENDS Integers, Sequences, FiniteSets

\* call: the frame of one call of generate_distinct_colors
\* callA, callB: the frames of two independent calls
\* dist: one evaluation of _oklch_distance on a pair of coordinates, both ways
VARIABLES call, callA, callB, dist

vars == << call, callA, callB, dist >>

\* ------------------------------------------------------------------------
\* Bounds of the model
\* ------------------------------------------------------------------------
\* resolution of the fixed-point numbers: n stands for n / Unit
Unit == 200
\* requested counts range over -MaxNegative .. MaxCount
MaxNegative == 2
MaxCount == 21
\* the counts of two calls side by side range over -MaxNegative .. MaxPairCount
MaxPairCount == 3
\* the coordinates _oklch_distance is evaluated on: DistLevels + 1 values of
\* L and of C, DistHues hue angles
DistLevels == 2
DistHues == 8

\* ------------------------------------------------------------------------
\* Fixed-point arithmetic
\* ------------------------------------------------------------------------
Abs(x) == IF x < 0 THEN -x ELSE x
Min2(x, y) == IF y < x THEN y ELSE x
Max2(x, y) == IF y > x THEN y ELSE x
Mul(x, y) == (x * y) \div Unit

\* pi and 2 * pi (math.pi)
Pi == (31416 * Unit) \div 10000
TwoPi == 2 * Pi

\* largest y in lo..hi with y * y <= n, by bisection at mid
RECURSIVE SqrtSearch(_, _, _, _)
SqrtSearch(n, lo, hi, mid) ==
    IF lo >= hi THEN lo
    ELSE IF mid * mid <= n THEN SqrtSearch(n, mid, hi, (mid + hi + 1) \div 2)
    ELSE SqrtSearch(n, lo, mid - 1, (lo + mid) \div 2)

\* n is a sum of products of two fixed-point numbers (in units of
\* 1 / Unit^2); the result is its square root in units of 1 / Unit,
\* for roots up to 8
Sqrt(n) == SqrtSearch(n, 0, 8 * Unit, 4 * Unit)

Cube(y) == Mul(Mul(y, y), y)

\* largest y in lo..hi with y^3 <= x, by bisection at mid
RECURSIVE CbrtSearch(_, _, _, _)
CbrtSearch(x, lo, hi, mid) ==
    IF lo >= hi THEN lo
    ELSE IF Cube(mid) <= x THEN CbrtSearch(x, mid, hi, (mid + hi + 1) \div 2)
    ELSE CbrtSearch(x, lo, mid - 1, (lo + mid) \div 2)

\* x ** (1 / 3) for 0 <= x <= 1
Cbrt(x) == CbrtSearch(x, 0, Unit, (Unit + 1) \div 2)

Pow5(y) == Mul(Mul(Mul(y, y), Mul(y, y)), y)

\* largest y in lo..hi with y^5 <= x, by bisection at mid
RECURSIVE Root5Search(_, _, _, _)
Root5Search(x, lo, hi, mid) ==
    IF lo >= hi THEN lo
    ELSE IF Pow5(mid) <= x THEN Root5Search(x, mid, hi, (mid + hi + 1) \div 2)
    ELSE Root5Search(x, lo, mid - 1, (lo + mid) \div 2)

\* x ** (1 / 5) for 0 <= x <= 1
Root5(x) == Root5Search(x, 0, Unit, (Unit + 1) \div 2)

\* t ** 2.4 = t^2 * (t^2) ** (1/5) for 0 <= t <= 1
Pow24(t) == Mul(Mul(t, t), Root5(Mul(t, t)))

\* math.atan2(y, x), in (-pi, pi]: the arc tangent of the smaller
\* magnitude over the larger, z * (pi/4 + 0.273 * (1 - z)), unfolded by octant
Atan2(y, x) ==
    LET ay == Abs(y)
        ax == Abs(x)
        hi == Max2(ax, ay)
        lo == Min2(ax, ay)
        z == IF hi = 0 THEN 0 ELSE (lo * Unit) \div hi
        at == Mul(z, (Pi \div 4) + Mul((273 * Unit) \div 1000, Unit - z))
        oct == IF ay > ax THEN (Pi \div 2) - at ELSE at
        half == IF x < 0 THEN Pi - oct ELSE oct
    IN  IF y < 0 THEN -half ELSE half

\* ------------------------------------------------------------------------
\* Colour space conversion
\* ------------------------------------------------------------------------
_srgb_to_linear(c) ==
    IF c * 100000 <= 4045 * Unit
    THEN (c * 100) \div 1292
    ELSE Pow24((c * 1000 + 55 * Unit) \div 1055)

_rgb_to_oklab(rgb) ==
    LET r_lin == _srgb_to_linear(rgb[1])
        g_lin == _srgb_to_linear(rgb[2])
        b_lin == _srgb_to_linear(rgb[3])
        l_val == (41222 * r_lin + 53633 * g_lin + 5145 * b_lin) \div 100000
        m == (21190 * r_lin + 68070 * g_lin + 10740 * b_lin) \div 100000
        s == (8830 * r_lin + 28172 * g_lin + 62998 * b_lin) \div 100000
        l_ == Cbrt(l_val)
        m_ == Cbrt(m)
        s_ == Cbrt(s)
    IN  << (21045 * l_ + 79362 * m_ - 407 * s_) \div 100000,
           (197800 * l_ - 242859 * m_ + 45059 * s_) \div 100000,
           (2590 * l_ + 78277 * m_ - 80867 * s_) \div 100000 >>

_oklab_to_oklch(lab) ==
    LET a == lab[2]
        b == lab[3]
        c == Sqrt(a * a + b * b)
        h == Atan2(b, a)
    IN  << lab[1], c, IF h < 0 THEN h + TwoPi ELSE h >>

\* x ** 2
Sq(x) == x * x

\* the hue difference taken without abs()
HueDiffSigned(c1, c2) == c1[3] - c2[3]

\* hue_diff = abs(c1[2] - c2[2])
HueDiff(c1, c2) == Abs(c1[3] - c2[3])

\* hue_wrap = min(hue_diff, 2 * pi - hue_diff)
HueWrap(hue_diff) == Min2(hue_diff, TwoPi - hue_diff)

\* hue_term = hue_wrap * ((c1[1] + c2[1]) / 2)
HueTerm(c1, c2) == Mul(HueWrap(HueDiff(c1, c2)), (c1[2] + c2[2]) \div 2)

_oklch_distance(c1, c2) ==
    Sqrt(Sq(c1[1] - c2[1]) + Sq(c1[2] - c2[2]) + Sq(HueTerm(c1, c2)))

\* ------------------------------------------------------------------------
\* Candidate pool
\* ------------------------------------------------------------------------
\* colorsys._v(m1, m2, hue)
_v(m1, m2, hue) ==
    LET h == hue % Unit
    IN  IF h < Unit \div 6 THEN m1 + Mul((m2 - m1) * 6, h)
        ELSE IF h < Unit \div 2 THEN m2
        ELSE IF h < (2 * Unit) \div 3
             THEN m1 + Mul((m2 - m1) * 6, ((2 * Unit) \div 3) - h)
        ELSE m1

\* colorsys.hls_to_rgb(h, l, s)
hls_to_rgb(h, l, s) ==
    IF s = 0 THEN << l, l, l >>
    ELSE LET m2 == IF 2 * l <= Unit THEN Mul(l, Unit + s)
                                    ELSE l + s - Mul(l, s)
             m1 == 2 * l - m2
         IN  << _v(m1, m2, h + Unit \div 3),
                _v(m1, m2, h),
                _v(m1, m2, h - Unit \div 3) >>

\* min() written for max()
HueCountMin(count) == Min2(60, count * 3)

\* the floor of 60 hue steps left out
HueCountNoFloor(count) == count * 3

\* hue_count = max(60, count * 3)
HueCount(count) == Max2(60, count * 3)

\* np.linspace(0, 1, hue_count, endpoint=False), k = 1 .. hue_count
hues(hue_count) == [k \in 1..hue_count |-> ((k - 1) * Unit) \div hue_count]

lightness == << (38 * Unit) \div 100, (50 * Unit) \div 100, (62 * Unit) \div 100 >>
saturation == << (60 * Unit) \div 100, (78 * Unit) \div 100, (92 * Unit) \div 100 >>

\* the three nested loops that fill candidates: hue-major, then lightness,
\* then saturation
Candidates(hue_count) ==
    LET hs == hues(hue_count)
        nl == Len(lightness)
        ns == Len(saturation)
    IN  [i \in 1..(hue_count * nl * ns) |->
            hls_to_rgb(hs[((i - 1) \div (nl * ns)) + 1],
                       lightness[(((i - 1) \div ns) % nl) + 1],
                       saturation[((i - 1) % ns) + 1])]

OklchValues(cands) ==
    [i \in 1..Len(cands) |-> _oklab_to_oklch(_rgb_to_oklab(cands[i]))]

GrayOklch == _oklab_to_oklch(_rgb_to_oklab(<< Unit \div 2, Unit \div 2, Unit \div 2 >>))

\* ------------------------------------------------------------------------
\* generate_distinct_colors
\* ------------------------------------------------------------------------
\* a later item replaces the best one also when its key is equal
KeyBetterOrEqual(key, best_key) == key >= best_key

\* the comparison of max(): a later item replaces the best one only when
\* its key is strictly greater
KeyBetter(key, best_key) == key > best_key

MaxKeep(best, item) == IF KeyBetter(item[2], best[2]) THEN item ELSE best

\* max(range(len(candidates)), key=...) over the indices lo .. hi, as the
\* pair (index, key): the scan of the left half, continued over the right half
RECURSIVE MaxScan(_, _, _, _)
MaxScan(oklch_values, gray_oklch, lo, hi) ==
    IF lo = hi THEN << lo, _oklch_distance(oklch_values[lo], gray_oklch) >>
    ELSE MaxKeep(MaxScan(oklch_values, gray_oklch, lo, (lo + hi) \div 2),
                 MaxScan(oklch_values, gray_oklch, ((lo + hi) \div 2) + 1, hi))

FirstIdx(oklch_values, gray_oklch) ==
    MaxScan(oklch_values, gray_oklch, 1, Len(oklch_values))[1]

\* min(_oklch_distance(oklch, s) for s in selected_oklch), from position k
RECURSIVE MinScan(_, _, _, _)
MinScan(oklch, selected_oklch, k, best) ==
    IF k > Len(selected_oklch) THEN best
    ELSE MinScan(oklch, selected_oklch, k + 1,
                 Min2(best, _oklch_distance(oklch, selected_oklch[k])))

\* the distance to the colour selected last, not the minimum over all
MinDistLast(oklch, selected_oklch) ==
    _oklch_distance(oklch, selected_oklch[Len(selected_oklch)])

MinDist(oklch, selected_oklch) ==
    MinScan(oklch, selected_oklch, 2, _oklch_distance(oklch, selected_oklch[1]))

\* the comparison written min_dist >= best_score
BetterOrEqual(min_dist, best_score) == min_dist >= best_score

\* the comparison of the inner loop: min_dist > best_score
Better(min_dist, best_score) == min_dist > best_score

\* if min_dist > best_score: best_score = min_dist; best_idx = i
ForKeep(best, item) == IF Better(item[2], best[2]) THEN item ELSE best

\* for i in remaining[lo .. hi], as the pair (best_idx, best_score): the
\* scan of the left half, continued over the right half
RECURSIVE ForScan(_, _, _, _, _)
ForScan(remaining, oklch_values, selected_oklch, lo, hi) ==
    IF lo = hi
    THEN << remaining[lo], MinDist(oklch_values[remaining[lo]], selected_oklch) >>
    ELSE ForKeep(ForScan(remaining, oklch_values, selected_oklch,
                         lo, (lo + hi) \div 2),
                 ForScan(remaining, oklch_values, selected_oklch,
                         ((lo + hi) \div 2) + 1, hi))

\* best_idx = remaining[0]; best_score = -1.0; for i in remaining: ...
ForRemaining(remaining, oklch_values, selected_oklch) ==
    ForKeep(<< remaining[1], -Unit >>,
            ForScan(remaining, oklch_values, selected_oklch, 1, Len(remaining)))

\* list.remove(x): drops the first occurrence of x
RemoveAt(seq, p) == [k \in 1..(Len(seq) - 1) |-> IF k < p THEN seq[k] ELSE seq[k + 1]]

Remove(seq, x) ==
    RemoveAt(seq, CHOOSE p \in 1..Len(seq) :
                      seq[p] = x /\ \A j \in 1..(p - 1) : seq[j] # x)

\* [i for i in range(len(candidates)) if i != first_idx]
InitialRemaining(n, first_idx) ==
    [k \in 1..(n - 1) |-> IF k < first_idx THEN k ELSE k + 1]

\* the frame of one call before its first statement; picks and scores
\* record the successive values of first_idx / best_idx and best_score
NewCall(n) ==
    [ pc |-> "entry", count |-> n, hue_count |-> 0,
      candidates |-> << >>, oklch_values |-> << >>, gray_oklch |-> << >>,
      selected |-> << >>, selected_oklch |-> << >>, remaining |-> << >>,
      picks |-> << >>, scores |-> << >>, result |-> << >> ]

\* the test written count == 0
EntryStepZeroOnly(c) ==
    IF c.count = 0 THEN [c EXCEPT !.pc = "done", !.result = << >>]
                   ELSE [c EXCEPT !.pc = "build"]

\* if count <= 0: return []
EntryStep(c) ==
    IF c.count <= 0 THEN [c EXCEPT !.pc = "done", !.result = << >>]
                    ELSE [c EXCEPT !.pc = "build"]

\* hue_count, candidates, oklch_values, gray_oklch
BuildStep(c) ==
    LET hc == HueCount(c.count)
        cands == Candidates(hc)
    IN  [c EXCEPT !.pc = "seed", !.hue_count = hc, !.candidates = cands,
                  !.oklch_values = OklchValues(cands),
                  !.gray_oklch = GrayOklch]

\* first_idx, selected, selected_oklch, remaining
SeedWith(c, first_idx) ==
    [c EXCEPT !.pc = "loop",
              !.selected = << c.candidates[first_idx] >>,
              !.selected_oklch = << c.oklch_values[first_idx] >>,
              !.remaining = InitialRemaining(Len(c.candidates), first_idx),
              !.picks = << first_idx >>]

SeedStep(c) == SeedWith(c, FirstIdx(c.oklch_values, c.gray_oklch))

\* the loop test written len(selected) <= count
LoopTestInclusive(c) == Len(c.selected) <= c.count

\* the loop test: while len(selected) < count
LoopTest(c) == Len(c.selected) < c.count

\* the end of an iteration: the two appends and remaining.remove(best_idx)
Select(c, best_idx, best_score) ==
    [c EXCEPT !.selected = Append(@, c.candidates[best_idx]),
              !.selected_oklch = Append(@, c.oklch_values[best_idx]),
              !.remaining = Remove(@, best_idx),
              !.picks = Append(@, best_idx),
              !.scores = Append(@, best_score)]

SelectBest(c, best) == Select(c, best[1], best[2])

\* an iteration that scans a remaining list held at module level, the one
\* the call of frame callA last assigned, instead of its own
LoopStepShared(c) ==
    IF c.remaining = << >> THEN [c EXCEPT !.pc = "error"]
    ELSE IF callA.remaining = << >>
    THEN SelectBest(c, ForRemaining(c.remaining, c.oklch_values,
                                    c.selected_oklch))
    ELSE SelectBest(c, ForRemaining(callA.remaining, c.oklch_values,
                                    c.selected_oklch))

\* one iteration of the while loop; remaining[0] on an empty list raises
\* IndexError
LoopStep(c) ==
    IF c.remaining = << >> THEN [c EXCEPT !.pc = "error"]
    ELSE SelectBest(c, ForRemaining(c.remaining, c.oklch_values,
                                    c.selected_oklch))

\* return selected
ReturnStep(c) == [c EXCEPT !.pc = "done", !.result = c.selected]

\* the statement a frame is at
StepCall(c) ==
    CASE c.pc = "entry" -> EntryStep(c)
      [] c.pc = "build" -> BuildStep(c)
      [] c.pc = "seed" -> SeedStep(c)
      [] c.pc = "loop" -> IF LoopTest(c) THEN LoopStep(c) ELSE ReturnStep(c)

Running(c) == c.pc \in {"entry", "build", "seed", "loop"}

\* a frame that is not in use
Idle == [NewCall(0) EXCEPT !.pc = "idle"]

DistIdle == [pc |-> "idle", c1 |-> << >>, c2 |-> << >>, d12 |-> 0, d21 |-> 0]

\* ------------------------------------------------------------------------
\* One call of generate_distinct_colors
\* ------------------------------------------------------------------------
Counts == (-MaxNegative)..MaxCount

Init ==
    /\ call \in {NewCall(n) : n \in Counts}
    /\ callA = Idle
    /\ callB = Idle
    /\ dist = DistIdle

Entry ==
    /\ call.pc = "entry"
    /\ call' = EntryStep(call)
    /\ UNCHANGED << callA, callB, dist >>

Build ==
    /\ call.pc = "build"
    /\ call' = BuildStep(call)
    /\ UNCHANGED << callA, callB, dist >>

Seed ==
    /\ call.pc = "seed"
    /\ call' = SeedStep(call)
    /\ UNCHANGED << callA, callB, dist >>

Loop ==
    /\ call.pc = "loop"
    /\ LoopTest(call)
    /\ call' = LoopStep(call)
    /\ UNCHANGED << callA, callB, dist >>

Return ==
    /\ call.pc = "loop"
    /\ ~LoopTest(call)
    /\ call' = ReturnStep(call)
    /\ UNCHANGED << callA, callB, dist >>

Next == Entry \/ Build \/ Seed \/ Loop \/ Return

Spec == Init /\ [][Next]_vars

\* ------------------------------------------------------------------------
\* Two independent calls, interleaved statement by statement
\* ------------------------------------------------------------------------
PairCounts == (-MaxNegative)..MaxPairCount

InitPair ==
    /\ call = Idle
    /\ callA \in {NewCall(n) : n \in PairCounts}
    /\ callB \in {NewCall(n) : n \in PairCounts}
    /\ dist = DistIdle

StepA ==
    /\ Running(callA)
    /\ callA' = StepCall(callA)
    /\ UNCHANGED << call, callB, dist >>

StepB ==
    /\ Running(callB)
    /\ callB' = StepCall(callB)
    /\ UNCHANGED << call, callA, dist >>

NextPair == StepA \/ StepB

SpecPair == InitPair /\ [][NextPair]_vars

\* ------------------------------------------------------------------------
\* _oklch_distance on a pair of coordinates
\* ------------------------------------------------------------------------
\* (L, C, H) with L in 0 .. 1, C in 0 .. 1/2 and H in [0, 2 * pi)
Coords ==
    { << (l * Unit) \div DistLevels, (c * Unit) \div (2 * DistLevels),
         (h * TwoPi) \div DistHues >> :
        l \in 0..DistLevels, c \in 0..DistLevels, h \in 0..(DistHues - 1) }

InitDist ==
    /\ call = Idle
    /\ callA = Idle
    /\ callB = Idle
    /\ dist \in {[pc |-> "args", c1 |-> x, c2 |-> y, d12 |-> 0, d21 |-> 0] :
                    x \in Coords, y \in Coords}

Measure ==
    /\ dist.pc = "args"
    /\ dist' = [dist EXCEPT !.pc = "measured",
                            !.d12 = _oklch_distance(dist.c1, dist.c2),
                            !.d21 = _oklch_distance(dist.c2, dist.c1)]
    /\ UNCHANGED << call, callA, callB >>

NextDist == Measure

SpecDist == InitDist /\ [][NextDist]_vars

\* ------------------------------------------------------------------------
\* Properties
\* ------------------------------------------------------------------------
Range(seq) == {seq[k] : k \in 1..Len(seq)}

Last(seq) == seq[Len(seq)]

Front(seq) == SubSeq(seq, 1, Len(seq) - 1)

\* C1: for a count N with 1 <= N <= pool size, the finished call returns
\* exactly N entries, each the pool candidate at the grid index picked for
\* it, no grid index is picked twice and the N entries are pairwise distinct.
C1_ExactCountDistinct ==
    (call.pc = "done" /\ call.count >= 1 /\ call.count <= Len(call.candidates)) =>
        /\ Len(call.result) = call.count
        /\ Len(call.picks) = call.count
        /\ \A j \in 1..Len(call.result) :
              /\ call.picks[j] \in 1..Len(call.candidates)
              /\ call.result[j] = call.candidates[call.picks[j]]
        /\ \A j \in 1..Len(call.result) : \A k \in 1..Len(call.result) :
              j # k => /\ call.picks[j] # call.picks[k]
                       /\ call.result[j] # call.result[k]

C1_Witness ==
    call.pc = "done" /\ call.count = 5 /\ Len(call.result) = 5

\* distance of pool candidate i of frame c to the converted neutral gray
GrayDist(c, i) == _oklch_distance(c.oklch_values[i], GrayOklch)

SeedIsFirstMax(c, f, far) ==
    /\ \A i \in 1..Len(c.candidates) : GrayDist(c, i) <= far
    /\ \A i \in 1..(f - 1) : GrayDist(c, i) < far

\* C2: the first colour selected (and returned) is the pool candidate at
\* maximum distance to the converted gray (0.5, 0.5, 0.5); among candidates
\* at that maximum it is the first in grid order.
C2_SeedFarthestFromGray ==
    (call.pc \in {"loop", "done"} /\ call.count >= 1) =>
        /\ call.selected[1] = call.candidates[call.picks[1]]
        /\ SeedIsFirstMax(call, call.picks[1], GrayDist(call, call.picks[1]))
        /\ call.pc = "done" => call.result[1] = call.candidates[call.picks[1]]

C2_Witness ==
    /\ call.pc = "done"
    /\ call.count = 3
    /\ call.result[1] = call.candidates[call.picks[1]]
    /\ \E i \in 1..Len(call.candidates) :
          i # call.picks[1] /\ GrayDist(call, i) = GrayDist(call, call.picks[1])

\* the candidate at position p of the remaining list of frame c has the
\* largest minimum distance to the selected colours, and is the earliest
\* such candidate of the list; top is that candidate's minimum distance
PickIsFirstMax(c, p, top) ==
    /\ \A q \in 1..Len(c.remaining) :
          MinDist(c.oklch_values[c.remaining[q]], c.selected_oklch) <= top
    /\ \A q \in 1..(p - 1) :
          MinDist(c.oklch_values[c.remaining[q]], c.selected_oklch) < top

\* C3: every iteration of the selection loop appends a remaining candidate
\* whose minimum distance to the colours selected so far is at least that of
\* every other remaining candidate, and the earliest one of the remaining
\* list among those that tie.
C3_LoopPicksFirstFarthest ==
    [][(call.pc = "loop" /\ call'.pc = "loop"
        /\ Len(call'.selected) = Len(call.selected) + 1) =>
          \E p \in 1..Len(call.remaining) :
              /\ call.remaining[p] = Last(call'.picks)
              /\ call'.selected = Append(call.selected,
                                         call.candidates[call.remaining[p]])
              /\ call'.remaining = RemoveAt(call.remaining, p)
              /\ PickIsFirstMax(call, p,
                     MinDist(call.oklch_values[call.remaining[p]],
                             call.selected_oklch))]_vars

C3_Witness ==
    /\ call.pc = "loop"
    /\ Len(call.picks) >= 2
    /\ \E j \in Range(call.remaining) :
          MinDist(call.oklch_values[j], Front(call.selected_oklch))
              = Last(call.scores)

\* C4: a call with count <= 0 returns the empty sequence without error,
\* the same for a negative count as for 0, and builds no pool and selects
\* nothing.
C4_NonPositiveCountEmpty ==
    (call.count <= 0 /\ call.pc # "entry") =>
        call = [NewCall(call.count) EXCEPT !.pc = "done"]

C4_Witness ==
    call.pc = "done" /\ call.count < 0 /\ call.result = << >>

C8_Safe ==
    /\ call.pc # "error"
    /\ (call.pc \in {"seed", "loop", "done"} /\ call.count >= 1) =>
          /\ Len(call.candidates) =
                 IF 3 * call.count > 60 THEN 9 * 3 * call.count ELSE 9 * 60
          /\ Len(call.candidates) > call.count
    /\ (call.pc = "loop" /\ Len(call.selected) < call.count) =>
          call.remaining # << >>
    /\ call.pc \in {"loop", "done"} /\ call.count >= 1 =>
          Len(call.remaining) = Len(call.candidates) - Len(call.selected)
    /\ call.pc = "done" /\ call.count >= 1 => call.remaining # << >>
    /\ call.count >= 1 => Len(call.scores) <= call.count - 1
    /\ (call.pc = "done" /\ call.count >= 1) =>
          Len(call.scores) = call.count - 1

\* the number of statements a frame has still to run before it returns:
\* build, seed, count - 1 iterations and the return
Rank(c) ==
    CASE c.pc = "entry" -> IF c.count <= 0 THEN 1 ELSE c.count + 3
      [] c.pc = "build" -> c.count + 2
      [] c.pc = "seed" -> c.count + 1
      [] c.pc = "loop" -> c.count - Len(c.selected) + 1
      [] c.pc = "done" -> 0
      [] c.pc = "error" -> -1

\* C8: for count >= 1 the pool has 9 * max(60, 3 * count) entries, more
\* than count; remaining is non-empty whenever the loop body reads
\* remaining[0], so no IndexError is raised; the loop runs exactly count - 1
\* iterations and the call terminates: every statement brings the call one
\* step closer to its return, which is count + 3 statements from the entry.
C8_PoolNeverExhausted ==
    /\ []C8_Safe
    /\ [](Rank(call) >= 0 /\ (Rank(call) = 0 <=> call.pc = "done"))
    /\ [][Rank(call') = Rank(call) - 1]_vars

C8_Witness ==
    call.pc = "done" /\ call.count > 20 /\ Len(call.scores) = call.count - 1

\* C10: the winning scores of successive iterations never increase, every
\* winning score is >= 0, and the first remaining candidate examined always
\* beats the initial best_score of -1.0.
C10_ScoresNonIncreasing ==
    /\ \A j \in 1..Len(call.scores) :
          /\ call.scores[j] >= 0
          /\ j > 1 => call.scores[j] <= call.scores[j - 1]
    /\ (call.pc = "loop" /\ Len(call.selected) < call.count
        /\ call.remaining # << >>) =>
          MinDist(call.oklch_values[call.remaining[1]], call.selected_oklch)
              > -Unit

C10_Witness ==
    /\ call.pc = "done"
    /\ Len(call.scores) >= 3
    /\ call.scores[2] < call.scores[1]
    /\ call.scores[3] <= call.scores[2]

C9_PrefixStable ==
    (callA.pc = "done" /\ callB.pc = "done"
     /\ 1 <= callA.count /\ callA.count < callB.count
     /\ (IF 3 * callA.count > 60 THEN 3 * callA.count ELSE 60)
          = (IF 3 * callB.count > 60 THEN 3 * callB.count ELSE 60)) =>
        callA.result = SubSeq(callB.result, 1, callA.count)

C9_Witness ==
    /\ callA.pc = "done"
    /\ callB.pc = "done"
    /\ callA.count = 2
    /\ callB.count = 3
    /\ Len(callB.result) = 3
    /\ callA.result = SubSeq(callB.result, 1, 2)

\* C7: _oklch_distance(c1, c2) = _oklch_distance(c2, c1) for coordinates
\* with H in [0, 2 * pi), also when the hue difference wraps around.
C7_DistanceSymmetric ==
    dist.pc = "measured" => dist.d12 = dist.d21

C7_Witness ==
    /\ dist.pc = "measured"
    /\ dist.c1[3] - dist.c2[3] > Pi
    /\ dist.c1[2] + dist.c2[2] > 0
    /\ dist.d12 > 0
    /\ dist.d12 = dist.d21

====
